---- MODULE Spec2Model ----
(***************************************************************************)
(* State-machine model of the ink! contract VotingSystem                   *)
(* (src/voting_system/lib.rs): owner-gated proposal creation and           *)
(* one-vote-per-account tallying over two storage Mappings, a u32 counter  *)
(* and the owner account.                                                  *)
(*                                                                         *)
(* Every message runs to completion as one step.  The u32 type is modelled *)
(* by the range 0..U32_MAX with a scaled-down U32_MAX so that the          *)
(* saturating arithmetic of lines 88 and 109 is reachable.                 *)
(***************************************************************************)
EXTENDS Integers, Sequences, FiniteSets, TLC

\* ------------------------------------------------------------------ bounds
\* Largest value of the (scaled-down) u32 type: ids, counters and vote
\* counts range over 0..U32_MAX.
U32_MAX == 2

\* Successful mutating calls (= emitted events) explored per behaviour.
MaxEvents == 5

\* ------------------------------------------------------------------ types
U32 == 0 .. U32_MAX

\* Callers used by the tests (default_accounts).
AccountId == {"alice", "bob", "charlie"}

\* Titles passed to create_proposal; the code accepts any String.
Title == {"", "A"}

\* ------------------------------------------------------------------ state
VARIABLES
    proposals,       \* Mapping<u32, Proposal>: function on the ids that hold a record
    voters,          \* Mapping<(u32, AccountId), bool>: function on the keys written
    proposal_count,  \* u32
    owner,           \* AccountId
    events,          \* sequence of events emitted through env().emit_event
    call,            \* the last message called: [op, caller, arg]; caller is "any"
                     \* for the two reads, which never look at env().caller()
    result,          \* what that message returned: [tag, val]
    ok_creates,      \* history: number of create_proposal calls that returned Ok
    ok_votes         \* history: the <<proposal_id, caller>> of vote calls that returned Ok

vars == <<proposals, voters, proposal_count, owner, events, call, result,
          ok_creates, ok_votes>>

\* ---------------------------------------------------------------- helpers
Ok(v) == [tag |-> "Ok", val |-> v]
Err(e) == [tag |-> "Err", val |-> e]
IsErr(r, e) == r.tag = "Err" /\ r.val = e
IsOk(r) == r.tag = "Ok"

\* u32::saturating_add with wrap-around instead of clamping.
wrapping_add(x, y) == (x + y) % (U32_MAX + 1)

\* u32::saturating_add (lines 88, 109).
saturating_add(x, y) == IF x + y > U32_MAX THEN U32_MAX ELSE x + y

\* Mapping::get(key).is_some()
Mapping_contains(m, k) == k \in DOMAIN m

\* An insert that keeps the value of a key that is already present.
Mapping_insert_keep(m, k, v) ==
    [x \in (DOMAIN m) \cup {k} |-> IF x \in DOMAIN m THEN m[x] ELSE v]

\* Mapping::insert(key, &value): writes the key, replacing any earlier value.
Mapping_insert(m, k, v) ==
    [x \in (DOMAIN m) \cup {k} |-> IF x = k THEN v ELSE m[x]]

\* A gate that lets every caller through.
IsOwner_any(caller) == TRUE

\* Negation of the test on line 76: self.env().caller() != self.owner
IsOwner(caller) == caller = owner

\* A check that never finds a mark.
HasVoted_never(proposal_id, caller) == FALSE

\* A check keyed by the caller alone: a mark on any proposal counts.
HasVoted_any(proposal_id, caller) ==
    \E key \in DOMAIN voters : key[2] = caller /\ voters[key]

\* Line 104: self.voters.get((proposal_id, caller)).unwrap_or(false)
HasVoted(proposal_id, caller) ==
    IF Mapping_contains(voters, <<proposal_id, caller>>)
    THEN voters[<<proposal_id, caller>>]
    ELSE FALSE

ProposalCreated(id, title) == [type |-> "ProposalCreated", id |-> id, title |-> title]
\* A VoteCast that carries the owner in place of the voter.
VoteCast_owner(proposal_id, voter) ==
    [type |-> "VoteCast", proposal_id |-> proposal_id, voter |-> owner]

VoteCast(proposal_id, voter) == [type |-> "VoteCast", proposal_id |-> proposal_id, voter |-> voter]

\* A constructor that installs a fixed owner whoever the caller is.
Init_fixed_owner ==
    /\ proposals = <<>>
    /\ voters = <<>>
    /\ proposal_count = 0
    /\ owner = "alice"
    /\ events = <<>>
    /\ call \in {[op |-> "new", caller |-> c, arg |-> "none"] : c \in AccountId}
    /\ result = Ok("unit")
    /\ ok_creates = 0
    /\ ok_votes = {}

\* ------------------------------------------------------------------- Init
\* VotingSystem::new(): empty mappings, count 0, owner = the constructing caller.
Init ==
    /\ proposals = <<>>
    /\ voters = <<>>
    /\ proposal_count = 0
    /\ owner \in AccountId
    /\ events = <<>>
    /\ call = [op |-> "new", caller |-> owner, arg |-> "none"]
    /\ result = Ok("unit")
    /\ ok_creates = 0
    /\ ok_votes = {}

\* ---------------------------------------------------------------- actions
\* create_proposal that advances the counter before taking the id.
create_proposal_count_first(caller, title) ==
    /\ call' = [op |-> "create_proposal", caller |-> caller, arg |-> title]
    /\ IF ~IsOwner(caller)
       THEN /\ result' = Err("OnlyOwnerCanPerformAction")
            /\ UNCHANGED <<proposals, voters, proposal_count, owner, events,
                           ok_creates, ok_votes>>
       ELSE LET id == saturating_add(proposal_count, 1)
                proposal == [description |-> title, votes |-> 0]
            IN  /\ Len(events) < MaxEvents
                /\ proposals' = Mapping_insert(proposals, id, proposal)
                /\ proposal_count' = id
                /\ events' = Append(events, ProposalCreated(id, title))
                /\ result' = Ok(id)
                /\ ok_creates' = ok_creates + 1
                /\ UNCHANGED <<voters, owner, ok_votes>>

\* create_proposal(&mut self, title) -> Result<u32, Error>
create_proposal(caller, title) ==
    /\ call' = [op |-> "create_proposal", caller |-> caller, arg |-> title]
    /\ IF ~IsOwner(caller)
       THEN /\ result' = Err("OnlyOwnerCanPerformAction")
            /\ UNCHANGED <<proposals, voters, proposal_count, owner, events,
                           ok_creates, ok_votes>>
       ELSE LET id == proposal_count
                proposal == [description |-> title, votes |-> 0]
            IN  /\ Len(events) < MaxEvents
                /\ proposals' = Mapping_insert(proposals, id, proposal)
                /\ proposal_count' = saturating_add(proposal_count, 1)
                /\ events' = Append(events, ProposalCreated(id, title))
                /\ result' = Ok(id)
                /\ ok_creates' = ok_creates + 1
                /\ UNCHANGED <<voters, owner, ok_votes>>

\* vote with the tally written before the uniqueness check.
vote_partial(caller, proposal_id) ==
    /\ call' = [op |-> "vote", caller |-> caller, arg |-> proposal_id]
    /\ IF ~Mapping_contains(proposals, proposal_id)
       THEN /\ result' = Err("ProposalDoesNotExist")
            /\ UNCHANGED <<proposals, voters, proposal_count, owner, events,
                           ok_creates, ok_votes>>
       ELSE LET proposal == [proposals[proposal_id] EXCEPT
                                !.votes = saturating_add(@, 1)]
            IN  IF HasVoted(proposal_id, caller)
                THEN /\ proposals' = Mapping_insert(proposals, proposal_id, proposal)
                     /\ result' = Err("AlreadyVoted")
                     /\ UNCHANGED <<voters, proposal_count, owner, events,
                                    ok_creates, ok_votes>>
                ELSE /\ Len(events) < MaxEvents
                     /\ proposals' = Mapping_insert(proposals, proposal_id, proposal)
                     /\ voters' = Mapping_insert(voters, <<proposal_id, caller>>, TRUE)
                     /\ events' = Append(events, VoteCast(proposal_id, caller))
                     /\ result' = Ok("unit")
                     /\ ok_votes' = ok_votes \cup {<<proposal_id, caller>>}
                     /\ UNCHANGED <<proposal_count, owner, ok_creates>>

\* vote that emits VoteCast before its two checks.
vote_emit_first(caller, proposal_id) ==
    /\ call' = [op |-> "vote", caller |-> caller, arg |-> proposal_id]
    /\ Len(events) < MaxEvents
    /\ events' = Append(events, VoteCast(proposal_id, caller))
    /\ IF ~Mapping_contains(proposals, proposal_id)
       THEN /\ result' = Err("ProposalDoesNotExist")
            /\ UNCHANGED <<proposals, voters, proposal_count, owner,
                           ok_creates, ok_votes>>
       ELSE IF HasVoted(proposal_id, caller)
       THEN /\ result' = Err("AlreadyVoted")
            /\ UNCHANGED <<proposals, voters, proposal_count, owner,
                           ok_creates, ok_votes>>
       ELSE LET proposal == [proposals[proposal_id] EXCEPT
                                !.votes = saturating_add(@, 1)]
            IN  /\ proposals' = Mapping_insert(proposals, proposal_id, proposal)
                /\ voters' = Mapping_insert(voters, <<proposal_id, caller>>, TRUE)
                /\ result' = Ok("unit")
                /\ ok_votes' = ok_votes \cup {<<proposal_id, caller>>}
                /\ UNCHANGED <<proposal_count, owner, ok_creates>>

\* vote that counts the vote and emits the event but writes no mark.
vote_no_mark(caller, proposal_id) ==
    /\ call' = [op |-> "vote", caller |-> caller, arg |-> proposal_id]
    /\ IF ~Mapping_contains(proposals, proposal_id)
       THEN /\ result' = Err("ProposalDoesNotExist")
            /\ UNCHANGED <<proposals, voters, proposal_count, owner, events,
                           ok_creates, ok_votes>>
       ELSE IF HasVoted(proposal_id, caller)
       THEN /\ result' = Err("AlreadyVoted")
            /\ UNCHANGED <<proposals, voters, proposal_count, owner, events,
                           ok_creates, ok_votes>>
       ELSE LET proposal == [proposals[proposal_id] EXCEPT
                                !.votes = saturating_add(@, 1)]
            IN  /\ Len(events) < MaxEvents
                /\ proposals' = Mapping_insert(proposals, proposal_id, proposal)
                /\ events' = Append(events, VoteCast(proposal_id, caller))
                /\ result' = Ok("unit")
                /\ ok_votes' = ok_votes \cup {<<proposal_id, caller>>}
                /\ UNCHANGED <<voters, proposal_count, owner, ok_creates>>

\* vote that stores a freshly built record, losing the description.
vote_fresh_record(caller, proposal_id) ==
    /\ call' = [op |-> "vote", caller |-> caller, arg |-> proposal_id]
    /\ IF ~Mapping_contains(proposals, proposal_id)
       THEN /\ result' = Err("ProposalDoesNotExist")
            /\ UNCHANGED <<proposals, voters, proposal_count, owner, events,
                           ok_creates, ok_votes>>
       ELSE IF HasVoted(proposal_id, caller)
       THEN /\ result' = Err("AlreadyVoted")
            /\ UNCHANGED <<proposals, voters, proposal_count, owner, events,
                           ok_creates, ok_votes>>
       ELSE LET proposal == [description |-> "",
                             votes |-> saturating_add(proposals[proposal_id].votes, 1)]
            IN  /\ Len(events) < MaxEvents
                /\ proposals' = Mapping_insert(proposals, proposal_id, proposal)
                /\ voters' = Mapping_insert(voters, <<proposal_id, caller>>, TRUE)
                /\ events' = Append(events, VoteCast(proposal_id, caller))
                /\ result' = Ok("unit")
                /\ ok_votes' = ok_votes \cup {<<proposal_id, caller>>}
                /\ UNCHANGED <<proposal_count, owner, ok_creates>>

\* vote(&mut self, proposal_id) -> Result<(), Error>
vote(caller, proposal_id) ==
    /\ call' = [op |-> "vote", caller |-> caller, arg |-> proposal_id]
    /\ IF ~Mapping_contains(proposals, proposal_id)
       THEN /\ result' = Err("ProposalDoesNotExist")
            /\ UNCHANGED <<proposals, voters, proposal_count, owner, events,
                           ok_creates, ok_votes>>
       ELSE IF HasVoted(proposal_id, caller)
       THEN /\ result' = Err("AlreadyVoted")
            /\ UNCHANGED <<proposals, voters, proposal_count, owner, events,
                           ok_creates, ok_votes>>
       ELSE LET proposal == [proposals[proposal_id] EXCEPT
                                !.votes = saturating_add(@, 1)]
            IN  /\ Len(events) < MaxEvents
                /\ proposals' = Mapping_insert(proposals, proposal_id, proposal)
                /\ voters' = Mapping_insert(voters, <<proposal_id, caller>>, TRUE)
                /\ events' = Append(events, VoteCast(proposal_id, caller))
                /\ result' = Ok("unit")
                /\ ok_votes' = ok_votes \cup {<<proposal_id, caller>>}
                /\ UNCHANGED <<proposal_count, owner, ok_creates>>

\* The value get_proposal(proposal_id) returns in the current state.
GetProposal(proposal_id) ==
    IF ~Mapping_contains(proposals, proposal_id)
    THEN Err("ProposalDoesNotExist")
    ELSE Ok(<<proposals[proposal_id].description, proposals[proposal_id].votes>>)

\* get_proposal(&self, proposal_id) -> Result<(String, u32), Error>
get_proposal(proposal_id) ==
    /\ call' = [op |-> "get_proposal", caller |-> "any", arg |-> proposal_id]
    /\ result' = GetProposal(proposal_id)
    /\ UNCHANGED <<proposals, voters, proposal_count, owner, events,
                   ok_creates, ok_votes>>

\* The value total_proposals() returns in the current state.
TotalProposals == proposal_count

\* total_proposals(&self) -> u32
total_proposals ==
    /\ call' = [op |-> "total_proposals", caller |-> "any", arg |-> "none"]
    /\ result' = Ok(TotalProposals)
    /\ UNCHANGED <<proposals, voters, proposal_count, owner, events,
                   ok_creates, ok_votes>>

Next ==
    \/ \E caller \in AccountId, title \in Title : create_proposal(caller, title)
    \/ \E caller \in AccountId, proposal_id \in U32 : vote(caller, proposal_id)
    \/ \E proposal_id \in U32 : get_proposal(proposal_id)
    \/ total_proposals

Spec == Init /\ [][Next]_vars

\* ------------------------------------------------------------ type check
TypeOK ==
    /\ DOMAIN proposals \subseteq U32
    /\ \A k \in DOMAIN proposals :
          proposals[k].description \in Title /\ proposals[k].votes \in U32
    /\ DOMAIN voters \subseteq U32 \X AccountId
    /\ proposal_count \in U32
    /\ owner \in AccountId
    /\ Len(events) <= MaxEvents

\* ------------------------------------------------------------- properties
\* Votes of proposal k as get_proposal(k) reports them.
VotesOf(k) == GetProposal(k).val[2]

\* Accounts whose vote(k) call returned Ok.
SuccessfulVoters(k) == {c \in AccountId : <<k, c>> \in ok_votes}

\* The last message was op and it returned Ok.
Succeeded(op) == call.op = op /\ IsOk(result)

\* C1: for every existing proposal k, the vote count get_proposal(k) reports
\* equals the number of distinct identities whose vote(k) call succeeded.
C1_VoteCountIsVoterCount ==
    \A k \in DOMAIN proposals : VotesOf(k) = Cardinality(SuccessfulVoters(k))

\* C2: a vote(k) call by an identity that already voted successfully on k
\* returns AlreadyVoted and leaves the vote count of k unchanged.
C2_SecondVoteRejected ==
    [][ \A c \in AccountId, k \in U32 :
          (call' = [op |-> "vote", caller |-> c, arg |-> k] /\ <<k, c>> \in ok_votes)
             => /\ IsErr(result', "AlreadyVoted")
                /\ GetProposal(k)' = GetProposal(k) ]_vars

\* C2 witness: an account that voted on a proposal, after other successful
\* calls in between, has just been refused a second vote on it.
C2_Witness ==
    /\ call.op = "vote"
    /\ IsErr(result, "AlreadyVoted")
    /\ <<call.arg, call.caller>> \in ok_votes
    /\ events[Len(events)] # VoteCast(call.arg, call.caller)

\* C3: create_proposal by any identity other than the owner returns
\* OnlyOwnerCanPerformAction and total_proposals() is the same afterwards.
C3_NonOwnerCreateRejected ==
    [][ (call'.op = "create_proposal" /\ call'.caller # owner)
          => /\ IsErr(result', "OnlyOwnerCanPerformAction")
             /\ TotalProposals' = TotalProposals ]_vars

\* C3 witness: a non-owner has just been refused while proposals exist.
C3_Witness ==
    /\ call.op = "create_proposal"
    /\ call.caller # owner
    /\ IsErr(result, "OnlyOwnerCanPerformAction")
    /\ TotalProposals > 0

\* C4: the n-th successful create_proposal returns id n-1, and
\* total_proposals() equals the number of successful creations.
C4_IdsCountCreations ==
    /\ TotalProposals = ok_creates
    /\ Succeeded("create_proposal") => result.val = ok_creates - 1

\* C5: vote(id) and get_proposal(id) fail with ProposalDoesNotExist for
\* every id >= total_proposals(), for every caller.
C5_OutOfRangeRejected ==
    [][ (call'.op \in {"vote", "get_proposal"} /\ call'.arg >= TotalProposals)
          => IsErr(result', "ProposalDoesNotExist") ]_vars

\* C6: the ids holding a Proposal record are exactly 0 .. proposal_count-1.
C6_DenseIds ==
    DOMAIN proposals = 0 .. (proposal_count - 1)

\* C7: the votes of an existing proposal never decrease, and change only by
\* +1 as the effect of a successful vote on it by an unmarked identity.
C7_VotesMonotone ==
    [][ \A k \in DOMAIN proposals :
          /\ k \in DOMAIN proposals'
          /\ proposals'[k].votes >= proposals[k].votes
          /\ proposals'[k].votes # proposals[k].votes
               => /\ proposals'[k].votes = proposals[k].votes + 1
                  /\ call'.op = "vote" /\ call'.arg = k /\ IsOk(result')
                  /\ ~HasVoted(k, call'.caller) ]_vars

\* C8: a record, once present, stays with the same description, and
\* create_proposal never writes to an id that already holds a record.
C8_RecordsImmutable ==
    [][ /\ \A k \in DOMAIN proposals :
              /\ k \in DOMAIN proposals'
              /\ proposals'[k].description = proposals[k].description
        /\ (call'.op = "create_proposal" /\ IsOk(result'))
              => result'.val \notin DOMAIN proposals ]_vars

\* C9: proposal_count never decreases; a successful create_proposal raises
\* it by exactly 1, except at the maximum value, where it stays.
C9_CountSaturates ==
    [][ /\ proposal_count' >= proposal_count
        /\ (call'.op = "create_proposal" /\ IsOk(result'))
              => proposal_count' = IF proposal_count = U32_MAX
                                   THEN U32_MAX
                                   ELSE proposal_count + 1
        /\ ~(call'.op = "create_proposal" /\ IsOk(result'))
              => proposal_count' = proposal_count ]_vars

\* C9 witness: a creation has succeeded with the counter already at the
\* maximum, and the counter is still there.
C9_Witness ==
    /\ Succeeded("create_proposal")
    /\ ok_creates > U32_MAX
    /\ proposal_count = U32_MAX

\* C10: a call that returns an error leaves proposals, voters,
\* proposal_count, owner and the emitted events as they were.
C10_ErrorsChangeNothing ==
    [][ result'.tag = "Err"
          => UNCHANGED <<proposals, voters, proposal_count, owner, events>> ]_vars

\* C10 witness: a double vote has just been refused on a proposal that
\* carries votes.
C10_Witness ==
    /\ call.op = "vote"
    /\ IsErr(result, "AlreadyVoted")
    /\ proposals[call.arg].votes > 0
    /\ Len(events) > 1

\* Number of emitted events of the given type.
CountEvents(type) == Cardinality({i \in 1 .. Len(events) : events[i].type = type})

\* C11: after create_proposal(X) returns id k, get_proposal(k) returns
\* (X, 0), for every description X and every state the call is made in.
C11_CreateThenGet ==
    Succeeded("create_proposal")
        => GetProposal(result.val) = [tag |-> "Ok", val |-> <<call.arg, 0>>]

\* C11 witness: a creation with the empty description, already used by an
\* earlier proposal, has just succeeded.
C11_Witness ==
    /\ Succeeded("create_proposal")
    /\ call.arg = ""
    /\ result.val > 0
    /\ proposals[0].description = ""

\* C12: a successful create_proposal emits exactly one ProposalCreated with
\* the returned id and the description, a successful vote exactly one
\* VoteCast with the proposal id and the caller, every other call none; the
\* ProposalCreated events number the successful creations and the VoteCast
\* events the successful votes.
C12_OneEventPerSuccess ==
    [][ /\ (call'.op = "create_proposal" /\ IsOk(result'))
            => events' = Append(events, [type |-> "ProposalCreated",
                                         id |-> result'.val, title |-> call'.arg])
        /\ (call'.op = "vote" /\ IsOk(result'))
            => events' = Append(events, [type |-> "VoteCast",
                                         proposal_id |-> call'.arg,
                                         voter |-> call'.caller])
        /\ ~(call'.op \in {"create_proposal", "vote"} /\ IsOk(result'))
            => events' = events
        /\ CountEvents("ProposalCreated")' = ok_creates'
        /\ CountEvents("VoteCast")' = Cardinality(ok_votes') ]_vars

\* C12 witness: creations and votes have succeeded and a failed call has
\* just returned.
C12_Witness ==
    /\ result.tag = "Err"
    /\ CountEvents("ProposalCreated") > 1
    /\ CountEvents("VoteCast") > 1

\* C13: every VoteCast for proposal p in the event list comes after a
\* ProposalCreated for p; one creation followed by one vote of another
\* identity leaves exactly those two events, in that order.
C13_VoteCastAfterCreated ==
    /\ \A i \in 1 .. Len(events) :
          events[i].type = "VoteCast"
             => \E j \in 1 .. (i - 1) :
                   /\ events[j].type = "ProposalCreated"
                   /\ events[j].id = events[i].proposal_id
    /\ (ok_creates = 1 /\ Cardinality(ok_votes) = 1)
          => /\ Len(events) = 2
             /\ events[1].type = "ProposalCreated"
             /\ events[2].type = "VoteCast"

\* C13 witness: the owner created proposal 0 and another identity voted on it.
C13_Witness ==
    /\ Succeeded("vote")
    /\ call.caller # owner
    /\ Len(events) = 2
    /\ events[1].type = "ProposalCreated"
    /\ events[2] = [type |-> "VoteCast", proposal_id |-> 0, voter |-> call.caller]

\* C14: a vote mark for (p, v) exists only if p < proposal_count.
C14_MarksBelowCount ==
    \A key \in DOMAIN voters : voters[key] => key[1] < proposal_count

\* C15: right after construction there are no proposals, no records and no
\* marks and the owner is the constructing caller; the owner never changes,
\* and create_proposal succeeds for no other identity.
C15_OwnerFixedAtConstruction ==
    [][ /\ call.op = "new"
            => /\ TotalProposals = 0
               /\ DOMAIN proposals = {}
               /\ DOMAIN voters = {}
               /\ owner = call.caller
        /\ owner' = owner
        /\ (call'.op = "create_proposal" /\ IsOk(result'))
            => call'.caller = owner ]_vars

\* C15 witness: an owner other than the tests' default caller has created
\* a proposal after other accounts were refused or voted.
C15_Witness ==
    /\ Succeeded("create_proposal")
    /\ call.caller = owner
    /\ owner # "alice"
    /\ ok_creates > 1

\* C16: a vote mark for (p, v) exists exactly when a vote(p) call of v has
\* succeeded, a mark once present stays, and no second vote(p) call of v
\* succeeds.
C16_VotedIsTerminal ==
    [][ /\ {key \in DOMAIN voters : voters[key]} = ok_votes
        /\ {key \in DOMAIN voters' : voters'[key]} = ok_votes'
        /\ \A key \in DOMAIN voters :
              voters[key] => (key \in DOMAIN voters' /\ voters'[key])
        /\ (call'.op = "vote" /\ IsOk(result'))
              => <<call'.arg, call'.caller>> \notin ok_votes ]_vars

\* C16 witness: an account holding a mark on a proposal has been refused
\* there after the record at that id was written again by a creation.
C16_Witness ==
    /\ call.op = "vote"
    /\ IsErr(result, "AlreadyVoted")
    /\ voters[<<call.arg, call.caller>>]
    /\ proposals[call.arg].votes = 0

\* C17: a vote call either raises the proposal's counter by 1, records the
\* mark of (proposal_id, caller) and emits one VoteCast, or does none of
\* the three.
C17_VoteAllOrNothing ==
    [][ \A c \in AccountId, k \in U32 :
          call' = [op |-> "vote", caller |-> c, arg |-> k]
            => \/ /\ k \in DOMAIN proposals
                  /\ proposals'[k].votes = proposals[k].votes + 1
                  /\ <<k, c>> \notin DOMAIN voters
                  /\ <<k, c>> \in DOMAIN voters' /\ voters'[<<k, c>>]
                  /\ Len(events') = Len(events) + 1
               \/ /\ proposals' = proposals
                  /\ voters' = voters
                  /\ events' = events ]_vars

\* C18: create_proposal called by the owner never returns an error: it
\* stores {description, votes: 0} at id = proposal_count as it was before
\* the call and returns that id.
C18_OwnerCreateSucceeds ==
    [][ \A t \in Title :
          call' = [op |-> "create_proposal", caller |-> owner, arg |-> t]
            => /\ result' = [tag |-> "Ok", val |-> proposal_count]
               /\ proposal_count \in DOMAIN proposals'
               /\ proposals'[proposal_count] = [description |-> t, votes |-> 0] ]_vars

\* C18 witness: the owner has created a proposal titled "A" after votes
\* were cast, and its record sits at the returned id.
C18_Witness ==
    /\ Succeeded("create_proposal")
    /\ call.caller = owner
    /\ call.arg = "A"
    /\ ok_votes # {}
    /\ proposals[result.val] = [description |-> "A", votes |-> 0]

\* C19: vote(k) on an existing proposal k by any identity, the owner
\* included, that holds no mark on k succeeds, whatever marks it holds on
\* other proposals.
C19_VoteOpenToAll ==
    [][ \A c \in AccountId, k \in U32 :
          ( /\ call' = [op |-> "vote", caller |-> c, arg |-> k]
            /\ k \in DOMAIN proposals
            /\ <<k, c>> \notin DOMAIN voters )
            => IsOk(result') ]_vars

\* C19 witness: the owner, already marked on another proposal, has just
\* voted on a second one.
C19_Witness ==
    /\ Succeeded("vote")
    /\ call.caller = owner
    /\ \E k \in U32 : k # call.arg /\ <<k, owner>> \in DOMAIN voters

\* C20: a successful vote(k) by c changes only the votes of k and the mark
\* of (k, c); a successful create_proposal changes no mark and no record
\* other than the one at the id it returns; the two reads change nothing.
C20_Frame ==
    [][ /\ \A c \in AccountId, k \in U32 :
             (call' = [op |-> "vote", caller |-> c, arg |-> k] /\ IsOk(result'))
               => /\ DOMAIN proposals' = DOMAIN proposals
                  /\ proposals'[k].description = proposals[k].description
                  /\ \A j \in DOMAIN proposals : j # k => proposals'[j] = proposals[j]
                  /\ DOMAIN voters' = DOMAIN voters \cup {<<k, c>>}
                  /\ \A key \in DOMAIN voters :
                        key # <<k, c>> => voters'[key] = voters[key]
                  /\ proposal_count' = proposal_count
                  /\ owner' = owner
        /\ (call'.op = "create_proposal" /\ IsOk(result'))
               => /\ voters' = voters
                  /\ owner' = owner
                  /\ \A j \in DOMAIN proposals :
                        j # result'.val => (j \in DOMAIN proposals'
                                            /\ proposals'[j] = proposals[j])
        /\ call'.op \in {"get_proposal", "total_proposals"}
               => UNCHANGED <<proposals, voters, proposal_count, owner, events>> ]_vars

\* C20 witness: a vote has succeeded on a titled proposal while other
\* proposals carry votes and other marks exist.
C20_Witness ==
    /\ Succeeded("vote")
    /\ proposals[call.arg].description = "A"
    /\ \E j \in DOMAIN proposals : j # call.arg /\ proposals[j].votes > 0
    /\ Cardinality(DOMAIN voters) > 2

====
